---- MODULE Spec2Model ----
(***************************************************************************)
(* A model of the dual-state Christmas tree scene: the App state and its   *)
(* handlers (mode toggle, photo upload, slideshow cycling), the Photos     *)
(* component (featured index effect, photo item frame update), the         *)
(* TreeParticles progress smoothing and vertex shader easing, and the      *)
(* Ornaments spring physics.                                               *)
(*                                                                         *)
(* Numbers of the program are IEEE doubles.  They are modelled as decimal  *)
(* fixed-point integers with six fractional digits (Scale = 10^6), every   *)
(* product and quotient rounded to the nearest unit.                       *)
(***************************************************************************)
EXTENDS Integers, Sequences, FiniteSets, TLC

(***************************************************************************)
(* Bounds of the model.                                                    *)
(***************************************************************************)
\* number of files in one upload event
MaxFiles == 2
\* number of upload events in one behaviour
MaxUploads == 2
\* number of mode toggles in one behaviour
MaxToggles == 3
\* Math.random() is drawn from {k * (1 - 10^-6) / RandSteps : k \in 0..RandSteps}
RandSteps == 2
\* number of foliage particles of the model (CONFIG.particleCount is 8000)
ModelParticles == 2
\* number of ornaments of the model in each of the five instanced meshes
OrnamentsPerGroup == 1
\* number of rendered frames in one behaviour
MaxFrames == 2
\* number of frames of a stand-alone updatePhysics run
PhysFrames == 600
\* the shader is evaluated at the progress values k / GridSteps, k \in 0..GridSteps
GridSteps == 100

(***************************************************************************)
(* Fixed-point arithmetic.                                                 *)
(***************************************************************************)
\* the base of a limb: three decimal digits
Limb == 10 * 10 * 10
Scale == Limb * Limb

Abs(a) == IF a < 0 THEN -a ELSE a
Sgn(a) == IF a < 0 THEN -1 ELSE 1
Min(a, b) == IF a < b THEN a ELSE b
Max(a, b) == IF a > b THEN a ELSE b

\* a * b / Scale for a, b >= 0, rounded to nearest, in three limbs of base
\* 1000 so that no intermediate value leaves 32 bits
MulAbs(a, b) ==
  LET a2 == a \div Scale
      a1 == (a \div Limb) % Limb
      a0 == a % Limb
      b2 == b \div Scale
      b1 == (b \div Limb) % Limb
      b0 == b % Limb
      low == (a1 * b0 + a0 * b1) * Limb + a0 * b0 + (Scale \div 2)
  IN  a2 * b2 * Scale + (a2 * b1 + a1 * b2) * Limb
        + (a2 * b0 + a1 * b1 + a0 * b2) + (low \div Scale)

\* the product of two fixed-point numbers
FixMul(a, b) == Sgn(a) * Sgn(b) * MulAbs(Abs(a), Abs(b))

\* long division: n more decimal digits of r / b after the quotient acc
RECURSIVE DivDigits(_, _, _, _)
DivDigits(acc, r, b, n) ==
  IF n = 0 THEN acc + (IF 2 * r >= b THEN 1 ELSE 0)
  ELSE DivDigits(acc * 10 + ((r * 10) \div b), (r * 10) % b, b, n - 1)

\* a * Scale / b for a >= 0 and b > 0, rounded to nearest
DivAbs(a, b) == DivDigits(a \div b, a % b, b, 6)

\* the quotient of two fixed-point numbers (b # 0)
FixDiv(a, b) == Sgn(a) * Sgn(b) * DivAbs(Abs(a), Abs(b))

\* the fixed-point value of the fraction n / d of two small naturals (d > 0)
Frac(n, d) == (n * Scale + (d \div 2)) \div d

\* Math.floor of a fixed-point number, as an integer
MathFloor(a) == a \div Scale

\* Math.PI
PI == 3141593

\* Math.sin: the angle reduced to [-PI/2, PI/2], then the Taylor polynomial of
\* degree 11 in Horner form (off by less than 3 units of the last digit)
Sin(x) ==
  LET r0 == x % (2 * PI)
      r1 == IF r0 > PI THEN r0 - 2 * PI ELSE r0
      r  == IF r1 > PI \div 2 THEN PI - r1
            ELSE IF r1 < -(PI \div 2) THEN -PI - r1 ELSE r1
      u  == FixMul(r, r)
      t5 == Scale - (u \div 110)
      t4 == Scale - (FixMul(u, t5) \div 72)
      t3 == Scale - (FixMul(u, t4) \div 42)
      t2 == Scale - (FixMul(u, t3) \div 20)
      t1 == Scale - (FixMul(u, t2) \div 6)
  IN  Max(-Scale, Min(Scale, FixMul(r, t1)))

\* Math.cos
Cos(x) == Sin(x + (PI \div 2))

\* the least r in lo..hi with r^3 >= a, by bisection (hi^3 >= a)
RECURSIVE CbrtIn(_, _, _)
CbrtIn(a, lo, hi) ==
  IF hi - lo <= 1
  THEN IF FixMul(FixMul(lo, lo), lo) >= a THEN lo ELSE hi
  ELSE LET mid == (lo + hi) \div 2
       IN  IF FixMul(FixMul(mid, mid), mid) >= a
           THEN CbrtIn(a, lo, mid) ELSE CbrtIn(a, mid, hi)

\* Math.cbrt on [0, 1]
Cbrt(a) == CbrtIn(a, 0, Scale)

\* the angle in lo..hi, a part of [0, PI], whose cosine is y, by bisection
RECURSIVE AcosIn(_, _, _)
AcosIn(y, lo, hi) ==
  IF hi - lo <= 1
  THEN IF Abs(Cos(hi) - y) < Abs(Cos(lo) - y) THEN hi ELSE lo
  ELSE LET mid == (lo + hi) \div 2
       IN  IF Cos(mid) >= y THEN AcosIn(y, mid, hi) ELSE AcosIn(y, lo, mid)

\* Math.acos on [-1, 1]
Acos(y) == AcosIn(y, 0, PI)

\* JavaScript's % on integers: the result takes the sign of the dividend
JsRem(a, b) == IF a >= 0 THEN a % b ELSE -((-a) % b)

(***************************************************************************)
(* THREE.Vector3 and THREE.Euler values: <<x, y, z>>.                       *)
(***************************************************************************)
VAdd(u, v) == <<u[1] + v[1], u[2] + v[2], u[3] + v[3]>>
VSub(u, v) == <<u[1] - v[1], u[2] - v[2], u[3] - v[3]>>
\* multiplyScalar
VScale(u, k) == <<FixMul(u[1], k), FixMul(u[2], k), FixMul(u[3], k)>>
\* Vector3.lerp(v, alpha): this += (v - this) * alpha
VLerp(u, v, alpha) == VAdd(u, VScale(VSub(v, u), alpha))
\* THREE.MathUtils.lerp(x, y, t) = (1 - t) * x + t * y
Lerp(x, y, t) == FixMul(Scale - t, x) + FixMul(t, y)

\* the square of a length a >= 0 in units of 10^-12, as <<hi, lo>> with
\* value hi * 10^6 + lo and 0 <= lo < 10^6
SqPair(a) ==
  LET ah == a \div Limb
      al == a % Limb
      mid == 2 * ah * al
      lo == (mid % Limb) * Limb + al * al
  IN  <<ah * ah + (mid \div Limb) + (lo \div Scale), lo % Scale>>

PairAdd(p, q) == <<p[1] + q[1] + ((p[2] + q[2]) \div Scale), (p[2] + q[2]) % Scale>>

PairLE(p, q) == p[1] < q[1] \/ (p[1] = q[1] /\ p[2] <= q[2])

\* the squared length of a vector
NormSq(u) == PairAdd(SqPair(Abs(u[1])), PairAdd(SqPair(Abs(u[2])), SqPair(Abs(u[3]))))

\* the squared distance of two points
DistSq(u, v) == NormSq(VSub(u, v))

(***************************************************************************)
(* State.                                                                  *)
(***************************************************************************)
VARIABLES
  treeState,      \* App: TreeState, "FORMED" or "CHAOS"
  userPhotos,     \* App: the photo list, a sequence of URLs
  photoOffset,    \* App: slideshow offset
  revoked,        \* the blob URLs passed to URL.revokeObjectURL
  blobCount,      \* the number of blob URLs created by URL.createObjectURL
  featuredIndex,  \* Photos: index of the featured photo item
  effectPending,  \* Photos: the useEffect of the last commit has not run yet
  rollCount,      \* history: number of setFeaturedIndex calls
  chaosCount,     \* history: number of transitions FORMED -> CHAOS
  toggleCount,    \* history: number of toggleState calls
  uploadCount,    \* history: number of handlePhotoUpload calls
  hist,           \* history: the last two handler calls with their pre-state
  heap,           \* Ornaments: the THREE.Vector3 / THREE.Euler objects, by identity
  items,          \* Ornaments: the generated items (object references, mass, phase)
  instanceMatrix, \* Ornaments: the transform written for every instance
  instanceColor,  \* Ornaments: the colours of every mesh, <<>> before the first frame
  geometry,       \* TreeParticles: the attributes of every particle
  uProgress,      \* TreeParticles: uniform uProgress
  uTime,          \* TreeParticles: uniform uTime
  shaded,         \* TreeParticles: what the vertex shader computed in the last draw
  photoData,      \* Photos: the DualPosition of every photo item
  photoMesh,      \* Photos: position, quaternion and scale of every photo item
  camera,         \* the camera: position and quaternion
  elapsedTime,    \* state.clock.elapsedTime
  frameCount,     \* history: number of rendered frames
  harness,        \* the constants of a stand-alone updatePhysics run, if any
  photosView      \* Photos as last rendered: hooks, output, item URLs, textures

appVars == <<treeState, userPhotos, photoOffset, revoked, blobCount, featuredIndex,
             effectPending, rollCount, chaosCount, toggleCount, uploadCount, hist>>

sceneVars == <<heap, items, instanceMatrix, instanceColor, geometry, uProgress,
               uTime, shaded, photoData, photoMesh, camera, elapsedTime,
               frameCount, harness>>

vars == <<appVars, sceneVars, photosView>>

(***************************************************************************)
(* Math.random().                                                          *)
(***************************************************************************)
\* the values Math.random() is drawn from, in increasing order: 0 <= r < 1
RandomSeq == [j \in 1..(RandSteps + 1) |-> ((j - 1) * (Scale - 1)) \div RandSteps]

Randoms == {RandomSeq[j] : j \in 1..(RandSteps + 1)}

Tapes == {<<0, 0>>, <<0, RandSteps>>, <<1, 0>>, <<1, 1>>}

\* the random streams the scene is generated from: stream <<a, b>> repeats
\* one value when a = 0 and runs through all of them when a = 1, shifting by
\* one after every round so that no stride of draws sees a single value
Rnd(tape, k) ==
  LET n == RandSteps + 1
  IN  RandomSeq[((tape[1] * (k + (k \div n) + (k \div (n * n))) + tape[2]) % n) + 1]

(***************************************************************************)
(* CONFIG (src/types.ts).                                                  *)
(***************************************************************************)
treeHeight == 14
treeRadius == 5

(***************************************************************************)
(* App (src/unnamed/part_004).                                             *)
(***************************************************************************)
\* a URL is a record: its scheme and what tells it from the others
Url(scheme, id) == [scheme |-> scheme, id |-> id]

DEFAULT_PHOTOS == [k \in 1..6 |-> Url("https", k)]

\* url.startsWith('blob:')
IsBlob(url) == url.scheme = "blob"

\* a File's type is <<major, minor>> for "major/minor" and <<>> for ""
FileTypes == {<<"image", "png">>, <<"text", "plain">>, <<>>}

\* file.type && file.type.startsWith('image/')
IsImage(type) == Len(type) = 2 /\ type[1] = "image"

RECURSIVE SeqsUpTo(_, _)
SeqsUpTo(S, n) ==
  IF n = 0 THEN {<<>>}
  ELSE LET shorter == SeqsUpTo(S, n - 1)
       IN  shorter \cup {Append(s, x) : s \in {t \in shorter : Len(t) = n - 1}, x \in S}

\* the FileList of an input event
FileLists == SeqsUpTo(FileTypes, MaxFiles)

(***************************************************************************)
(* Photos as rendered (src/unnamed/part_000).                              *)
(***************************************************************************)
totalCount == 12

\* the string ""
EmptyString == Url("", 0)

\* list[index] of JavaScript (0-based): undefined outside the list
ElementAt(list, index) ==
  IF index \in 0..(Len(list) - 1) THEN list[index + 1] ELSE Url("undefined", 0)

GetUrlNoOffset(list, offset, index) ==
  IF Len(list) = 0 THEN EmptyString ELSE ElementAt(list, JsRem(index, Len(list)))

\* getUrl(index) for the props userPhotos = list and photoOffset = offset
GetUrl(list, offset, index) ==
  IF Len(list) = 0 THEN EmptyString ELSE ElementAt(list, JsRem(index + offset, Len(list)))

RendersNothingIfMissing(given, list) == ~given

\* if (!userPhotos || userPhotos.length === 0) return null; given tells
\* whether the prop userPhotos was supplied
RendersNothing(given, list) == ~given \/ Len(list) = 0

\* the hooks Photos calls after the check: useState, useEffect, useMemo
HookCount == 1 + 1 + 1

\* no texture was asked for
NoTex == [u \in {} |-> "loading"]

\* Photos before its first render
NoView ==
  [given |-> FALSE, hooks |-> 0, output |-> "null", urls |-> <<>>, caught |-> <<>>,
   shown |-> <<>>, tex |-> NoTex, retry |-> FALSE, error |-> FALSE]

\* TextureErrorBoundary: hasError stays true once getDerivedStateFromError
\* has set it
Caught(hadError, failed) == hadError \/ failed

\* what the photo plane of an item renders: FallbackMaterial from the
\* boundary that has an error or from the Suspense while useTexture throws,
\* or the material with the texture
Rendered(hasError, status) ==
  IF hasError THEN "placeholder"
  ELSE IF status = "loaded" THEN "texture"
  ELSE "placeholder"

\* a render of Photos and of its photo items with the props given, list and
\* offset.  useTexture(url) asks for the texture of a URL once and throws
\* while it is loading (to the Suspense of the item) or after it has failed
\* (to the TextureErrorBoundary of the item); an item whose boundary has an
\* error does not render PhotoPlaneContent.  An error no boundary of the
\* item catches reaches AppErrorBoundary, which replaces the Canvas.
RenderView(view, given, list, offset) ==
  IF view.error THEN view
  ELSE IF RendersNothing(given, list)
  THEN [view EXCEPT !.given = given, !.hooks = 0, !.output = "null",
                    !.urls = <<>>, !.caught = <<>>, !.shown = <<>>, !.retry = FALSE]
  ELSE LET urls == [k \in 1..totalCount |-> GetUrl(list, offset, k - 1)]
           hadError == [k \in 1..totalCount |-> view.output = "group" /\ view.caught[k]]
           asked == {urls[k] : k \in {j \in 1..totalCount : ~hadError[j]}}
           tex == [u \in (DOMAIN view.tex) \cup asked |->
                     IF u \in DOMAIN view.tex THEN view.tex[u] ELSE "loading"]
           failed == [k \in 1..totalCount |-> ~hadError[k] /\ tex[urls[k]] = "failed"]
           caught == [k \in 1..totalCount |-> Caught(hadError[k], failed[k])]
       IN  [given |-> given, hooks |-> HookCount, output |-> "group", urls |-> urls,
            caught |-> caught,
            shown |-> [k \in 1..totalCount |-> Rendered(caught[k], tex[urls[k]])],
            tex |-> tex, retry |-> FALSE,
            error |-> \E k \in 1..totalCount : failed[k] /\ ~caught[k]]

\* the material of the photo plane of item k (1-based), as last rendered
Material(view, k) == view.shown[k]

\* the last two handler calls, each with the state it started from
Remember(op, n) ==
  LET entry == [op |-> op, offset |-> photoOffset, mode |-> treeState, n |-> n]
  IN  IF Len(hist) < 2 THEN Append(hist, entry) ELSE <<hist[2], entry>>

\* Experience: const isFormed = treeState === TreeState.FORMED
isFormed == treeState = "FORMED"

ToggleStuck(prev) == "CHAOS"

ToggledMode(prev) == IF prev = "CHAOS" THEN "FORMED" ELSE "CHAOS"

\* toggleState; the commit that follows schedules the effect of Photos, whose
\* dependency isFormed changed
toggleState ==
  /\ UNCHANGED sceneVars
  /\ ~effectPending
  /\ toggleCount < MaxToggles
  /\ treeState' = ToggledMode(treeState)
  /\ effectPending' = TRUE
  /\ toggleCount' = toggleCount + 1
  /\ chaosCount' = IF isFormed /\ treeState' # "FORMED" THEN chaosCount + 1
                   ELSE chaosCount
  /\ hist' = Remember("toggle", 0)
  /\ UNCHANGED <<userPhotos, photoOffset, revoked, blobCount, featuredIndex,
                 rollCount, uploadCount, photosView>>

NextOffsetNoWrap(prev, length) == prev + 1

NextOffset(prev, length) == JsRem(prev + 1, length)

PrevOffsetNoWrap(prev, length) == JsRem(prev - 1, length)

PrevOffset(prev, length) == JsRem(prev - 1 + length, length)

handleNextPhoto ==
  /\ UNCHANGED sceneVars
  /\ photoOffset' = IF Len(userPhotos) = 0 THEN photoOffset
                    ELSE NextOffset(photoOffset, Len(userPhotos))
  /\ hist' = Remember("next", 0)
  /\ photosView' = RenderView(photosView, TRUE, userPhotos, photoOffset')
  /\ UNCHANGED <<treeState, userPhotos, revoked, blobCount, featuredIndex,
                 effectPending, rollCount, chaosCount, toggleCount, uploadCount>>

handlePrevPhoto ==
  /\ UNCHANGED sceneVars
  /\ photoOffset' = IF Len(userPhotos) = 0 THEN photoOffset
                    ELSE PrevOffset(photoOffset, Len(userPhotos))
  /\ hist' = Remember("prev", 0)
  /\ photosView' = RenderView(photosView, TRUE, userPhotos, photoOffset')
  /\ UNCHANGED <<treeState, userPhotos, revoked, blobCount, featuredIndex,
                 effectPending, rollCount, chaosCount, toggleCount, uploadCount>>

\* the blob URLs among the current photos, all of them revoked by an upload
BlobsOf(photos) == {photos[k] : k \in {j \in 1..Len(photos) : IsBlob(photos[j])}}

\* the files of an upload that are images, in order
ImagesOf(files) == SelectSeq(files, IsImage)

\* newPhotos: one fresh object URL per image file
NewPhotos(files, count) == [k \in 1..Len(ImagesOf(files)) |-> Url("blob", count + k)]

UploadPhotosAlways(prev, newPhotos) == newPhotos

\* the photo list after an upload that produced newPhotos
UploadPhotos(prev, newPhotos) == IF Len(newPhotos) > 0 THEN newPhotos ELSE prev

UploadOffsetKept(prev, newPhotos) == prev

\* the offset after an upload that produced newPhotos
UploadOffset(prev, newPhotos) == IF Len(newPhotos) > 0 THEN 0 ELSE prev

handlePhotoUpload(files) ==
  /\ UNCHANGED sceneVars
  /\ uploadCount < MaxUploads
  /\ uploadCount' = uploadCount + 1
  /\ hist' = Remember("upload", Len(ImagesOf(files)))
  /\ IF Len(files) > 0
     THEN LET newPhotos == NewPhotos(files, blobCount)
          IN  /\ revoked' = revoked \cup BlobsOf(userPhotos)
              /\ blobCount' = blobCount + Len(newPhotos)
              /\ userPhotos' = UploadPhotos(userPhotos, newPhotos)
              /\ photoOffset' = UploadOffset(photoOffset, newPhotos)
     ELSE UNCHANGED <<revoked, blobCount, userPhotos, photoOffset>>
  /\ photosView' = RenderView(photosView, TRUE, userPhotos', photoOffset')
  /\ UNCHANGED <<treeState, featuredIndex, effectPending, rollCount, chaosCount,
                 toggleCount>>

(***************************************************************************)
(* Photos (src/unnamed/part_000).                                          *)
(***************************************************************************)
PickFeaturedCeil(r) == MathFloor(FixMul(r, totalCount * Scale) + Scale - 1)

\* Math.floor(Math.random() * totalCount)
PickFeatured(r) == MathFloor(FixMul(r, totalCount * Scale))

RerollsAlways(formed) == TRUE

\* if (!isFormed)
RerollsOn(formed) == ~formed

\* the useEffect on [isFormed]: re-roll the featured photo when the mode the
\* commit rendered is CHAOS
PhotosEffect ==
  /\ UNCHANGED sceneVars
  /\ effectPending
  /\ effectPending' = FALSE
  /\ IF RerollsOn(isFormed)
     THEN \E r \in Randoms :
            /\ featuredIndex' = PickFeatured(r)
            /\ rollCount' = rollCount + 1
     ELSE UNCHANGED <<featuredIndex, rollCount>>
  /\ UNCHANGED <<treeState, userPhotos, photoOffset, revoked, blobCount,
                 chaosCount, toggleCount, uploadCount, hist, photosView>>

\* isFeatured={i === featuredIndex}
IsFeatured(i) == i = featuredIndex

\* photoData: the DualPosition of photo item i (0-based), generated once from
\* the random stream; draws are numbered from base
PhotoDatum(tape, i, base) ==
  LET h == treeHeight * Scale
      y == FixMul(FixMul(Rnd(tape, base), h), 700000) + 2 * Scale
      levelRadius == FixMul(Scale - FixDiv(y, h), treeRadius * Scale) + 600000
      angle == FixMul(FixMul(Frac(i, totalCount), PI), 2 * Scale)
                 + FixMul(Rnd(tape, base + 1), 500000)
      tx == FixMul(levelRadius, Cos(angle))
      ty == y
      tz == FixMul(levelRadius, Sin(angle))
      rotTargetZ == FixMul(Rnd(tape, base + 2) - 500000, 500000)
      cx == FixMul(Rnd(tape, base + 3) - 500000, 35 * Scale)
      cy == FixMul(Rnd(tape, base + 4), 15 * Scale) - 5 * Scale
      cz == FixMul(Rnd(tape, base + 5) - 500000, 35 * Scale)
      rotChaos == [k \in 1..3 |-> FixMul(Rnd(tape, base + 5 + k) - 500000, Scale)]
  IN  [chaos |-> <<cx, cy, cz>>,
       target |-> <<tx, ty, tz>>,
       rotationChaos |-> rotChaos,
       rotationTarget |-> <<0, -angle + (PI \div 2), rotTargetZ>>]

\* the useMemo of Photos: totalCount items, nine draws each
GenPhotoData(tape, base) == [k \in 1..totalCount |-> PhotoDatum(tape, k - 1, base + 9 * (k - 1))]

\* a quaternion is kept as the term that made it: <<"identity">>,
\* <<"euler", x, y, z>> (setFromEuler), <<"look", fx, fy, fz>> (a camera
\* quaternion, by the direction it turns (0, 0, -1) to) and
\* <<"slerp", q, target, t>>
QuatFromEuler(e) == <<"euler", e[1], e[2], e[3]>>

\* (0, 0, -1).applyQuaternion(q) for a camera quaternion q
ApplyToMinusZ(q) == <<q[2], q[3], q[4]>>

\* Quaternion.slerp(target, t)
Slerp(q, target, t) ==
  IF t = 0 THEN q ELSE IF t = Scale THEN target ELSE <<"slerp", q, target, t>>

\* the camera poses OrbitControls moves between: the initial one, at
\* (0, 4, 20) looking at the origin, and one level with the origin
CameraPoses ==
  {[position |-> <<0, 4 * Scale, 20 * Scale>>, quaternion |-> <<"look", 0, -196116, -980581>>],
   [position |-> <<0, 0, 10 * Scale>>, quaternion |-> <<"look", 0, 0, -Scale>>]}

\* <group position={[0, -5, 0]}>: the group the ornaments and the photos are in
SceneOffset == <<0, -5 * Scale, 0>>

\* the world position of a position in the group
ToWorld(p) == VAdd(p, SceneOffset)

PhotoTargetPosNoLift(data, formed, featured, cam) ==
  IF formed THEN data.target
  ELSE IF featured
       THEN VAdd(cam.position, VScale(ApplyToMinusZ(cam.quaternion), 5 * Scale))
       ELSE data.chaos

\* where a photo item heads for in this frame, in the space of its parent group
PhotoTargetPos(data, formed, featured, cam) ==
  IF formed THEN data.target
  ELSE IF featured
       THEN LET forward == ApplyToMinusZ(cam.quaternion)
                world == VAdd(cam.position, VScale(forward, 5 * Scale))
            IN  <<world[1], world[2] + 5 * Scale, world[3]>>
       ELSE data.chaos

PhotoTargetQuat(data, formed, featured, cam, time) ==
  IF formed THEN QuatFromEuler(data.rotationTarget)
  ELSE IF featured THEN cam.quaternion
       ELSE QuatFromEuler(<<data.rotationChaos[1] + FixMul(time, 50000),
                            data.rotationChaos[2] + FixMul(time, 50000),
                            data.rotationChaos[3]>>)

PhotoTargetScale(formed, featured) ==
  IF formed THEN 1200000 ELSE IF featured THEN 1500000 ELSE 800000

\* the useFrame callback of one PhotoItem
PhotoItemFrame(mesh, data, formed, featured, cam, time, delta) ==
  LET lerpSpeed == IF featured THEN 2 * Scale ELSE 1500000
      alpha == FixMul(delta, lerpSpeed)
  IN  [position |-> VLerp(mesh.position, PhotoTargetPos(data, formed, featured, cam), alpha),
       quaternion |-> Slerp(mesh.quaternion,
                            PhotoTargetQuat(data, formed, featured, cam, time), alpha),
       scale |-> Lerp(mesh.scale, PhotoTargetScale(formed, featured), alpha)]

\* <group ref={meshRef} scale={1.2}>: a photo item when it is mounted
NewPhotoMesh == [position |-> <<0, 0, 0>>, quaternion |-> <<"identity">>, scale |-> 1200000]

(***************************************************************************)
(* TreeParticles (src/unnamed/part_001).                                   *)
(***************************************************************************)
\* a point uniform in the sphere of the given radius fraction, angles theta, phi
Spherical(r, theta, phi) ==
  <<FixMul(FixMul(r, Sin(phi)), Cos(theta)),
    FixMul(FixMul(r, Sin(phi)), Sin(theta)),
    FixMul(r, Cos(phi))>>

\* the attributes of particle i (0-based): six draws
Particle(tape, i, base) ==
  LET r == FixMul(Cbrt(Rnd(tape, base)), 15 * Scale)
      theta == FixMul(FixMul(Rnd(tape, base + 1), PI), 2 * Scale)
      phi == Acos(FixMul(2 * Scale, Rnd(tape, base + 2)) - Scale)
      c == Spherical(r, theta, phi)
      h == treeHeight * Scale
      y == FixMul(Rnd(tape, base + 3), h)
      levelRadius == FixMul(Scale - FixDiv(y, h), treeRadius * Scale)
      spiralAngle == i * 2399960
  IN  [position |-> <<c[1], c[2] + 7 * Scale, c[3]>>,
       aTargetPos |-> <<FixMul(levelRadius, Cos(spiralAngle)), y,
                        FixMul(levelRadius, Sin(spiralAngle))>>,
       aScale |-> FixMul(Rnd(tape, base + 4), 500000) + 500000,
       aRandom |-> Rnd(tape, base + 5)]

\* the useMemo of TreeParticles, for the particles of the model
GenParticles(tape, base) == [k \in 1..ModelParticles |-> Particle(tape, k - 1, base + 6 * (k - 1))]

\* pow(b, 3.0) of the vertex shader.  GLSL leaves pow undefined for a negative
\* base: a build either multiplies out the cube or returns NaN
Pow3(b) ==
  LET cube == FixMul(FixMul(b, b), b)
  IN  IF b >= 0 THEN {[nan |-> FALSE, val |-> cube]}
      ELSE {[nan |-> FALSE, val |-> cube], [nan |-> TRUE, val |-> 0]}

EaseOutCubicFlipped(x) == {[nan |-> p.nan, val |-> Scale - p.val] : p \in Pow3(x)}

\* float easeOutCubic(float x) { return 1.0 - pow(1.0 - x, 3.0); }
easeOutCubic(x) == {[nan |-> p.nan, val |-> Scale - p.val] : p \in Pow3(Scale - x)}

\* mix(a, b, t) = a * (1 - t) + b * t, by component
Mix(a, b, t) == [k \in 1..3 |-> FixMul(a[k], Scale - t) + FixMul(b[k], t)]

\* step(edge, x)
Step(edge, x) == IF x < edge THEN 0 ELSE Scale

\* main() of the vertex shader for one particle, with eased progress e
VertexMain(pt, e, time) ==
  IF e.nan THEN [nan |-> TRUE, t |-> 0, mixed |-> <<0, 0, 0>>, finalPos |-> <<0, 0, 0>>,
                 vColor |-> <<0, 0, 0>>]
  ELSE
  LET t == e.val
      mixed == Mix(pt.position, pt.aTargetPos, t)
      wind == FixMul(Sin(FixMul(time, 2 * Scale) + FixMul(mixed[2], 500000)
                           + FixMul(pt.aRandom, 10 * Scale)), 50000)
      sparkle == Sin(FixMul(time, 3 * Scale) + FixMul(pt.aRandom, 100 * Scale))
      colorMix == Step(850000, pt.aRandom)
      base == Mix(<<0, 300000, 100000>>, <<Scale, 840000, 0>>, colorMix)
  IN  [nan |-> FALSE, t |-> t, mixed |-> mixed,
       finalPos |-> <<mixed[1] + wind, mixed[2], mixed[3] + wind>>,
       vColor |-> IF sparkle > 900000 /\ t > 500000
                  THEN VAdd(base, <<500000, 500000, 500000>>) ELSE base]

\* one draw call: every vertex is shaded with the same uniforms
VertexShader(geo, progress, time) ==
  {[k \in DOMAIN geo |-> VertexMain(geo[k], e, time)] : e \in easeOutCubic(progress)}

\* the useFrame callback of TreeParticles: the new uProgress
ProgressLerp(progress, formed, delta) ==
  Lerp(progress, IF formed THEN Scale ELSE 0, FixMul(delta, 1500000))

(***************************************************************************)
(* Ornaments (src/unnamed/part_002).                                       *)
(***************************************************************************)
\* the five instanced meshes and the constants updatePhysics is called with
Groups ==
  <<[name |-> "balls", type |-> "outer", scaleBase |-> Scale,
     stiffness |-> 50000, damping |-> 920000, noiseStrength |-> 20000, orientToUp |-> FALSE],
    [name |-> "boxes", type |-> "scatter", scaleBase |-> 600000,
     stiffness |-> 40000, damping |-> 900000, noiseStrength |-> 30000, orientToUp |-> FALSE],
    [name |-> "diamonds", type |-> "outer", scaleBase |-> 500000,
     stiffness |-> 60000, damping |-> 940000, noiseStrength |-> 40000, orientToUp |-> FALSE],
    [name |-> "rings", type |-> "outer", scaleBase |-> 400000,
     stiffness |-> 50000, damping |-> 930000, noiseStrength |-> 20000, orientToUp |-> FALSE],
    [name |-> "icicles", type |-> "inner", scaleBase |-> 500000,
     stiffness |-> 50000, damping |-> 930000, noiseStrength |-> 20000, orientToUp |-> TRUE]>>

LevelRadiusWide(type, y, u) ==
  LET plain == FixMul(Scale - FixDiv(y, treeHeight * Scale), treeRadius * Scale)
  IN  IF type = "inner" THEN FixMul(plain, 500000 + FixMul(u, 300000))
      ELSE IF type = "outer" THEN FixMul(plain, 900000 + FixMul(u, 400000))
      ELSE plain

\* levelRadius after the archetype's factor; u is the draw the factor uses
LevelRadius(type, y, u) ==
  LET plain == FixMul(Scale - FixDiv(y, treeHeight * Scale), treeRadius * Scale)
  IN  IF type = "inner" THEN FixMul(plain, 500000 + FixMul(u, 300000))
      ELSE IF type = "outer" THEN FixMul(plain, 900000 + FixMul(u, 200000))
      ELSE plain

\* the values of one generated ornament; sixteen draws are set aside for it,
\* the archetype "scatter" leaves the fifth unused
OrnamentValues(tape, type, base) ==
  LET r == FixMul(Cbrt(Rnd(tape, base)), 18 * Scale) + 5 * Scale
      theta == FixMul(FixMul(Rnd(tape, base + 1), PI), 2 * Scale)
      phi == Acos(FixMul(2 * Scale, Rnd(tape, base + 2)) - Scale)
      y == FixMul(FixMul(Rnd(tape, base + 3), treeHeight * Scale), 900000)
      levelRadius == LevelRadius(type, y, Rnd(tape, base + 4))
      angle == FixMul(FixMul(Rnd(tape, base + 5), PI), 2 * Scale)
      target == <<FixMul(levelRadius, Cos(angle)), y, FixMul(levelRadius, Sin(angle))>>
  IN  [chaosPos |-> Spherical(r, theta, phi),
       targetPos |-> target,
       currentPos |-> target,
       velocity |-> <<0, 0, 0>>,
       rotation |-> [k \in 1..3 |-> FixMul(Rnd(tape, base + 5 + k), PI)],
       rotVelocity |-> [k \in 1..3 |-> FixMul(Rnd(tape, base + 8 + k) - 500000, 200000)],
       mass |-> 500000 + FixMul(Rnd(tape, base + 12), 1500000),
       phase |-> FixMul(FixMul(Rnd(tape, base + 13), PI), 2 * Scale)]

VecFields == {"chaosPos", "targetPos", "currentPos", "velocity", "rotation", "rotVelocity"}

\* the objects one ornament refers to
OrnamentRefsAliased(g, i) ==
  [f \in VecFields |-> IF f = "currentPos" THEN <<g, i, "targetPos">> ELSE <<g, i, f>>]

\* data.push({...}): every field of an ornament is an object of its own
OrnamentRefs(g, i) == [f \in VecFields |-> <<g, i, f>>]

\* the shared scratch vector of the frame callback
tempVec == <<0, 0, "tempVec">>

\* the ornaments of the model: group g, item i (1-based)
Slots == {<<g, i>> : g \in 1..Len(Groups), i \in 1..OrnamentsPerGroup}

ObjectIds == {<<sl[1], sl[2], f>> : sl \in Slots, f \in VecFields} \cup {tempVec}

DrawBase(g, i) == 16 * ((g - 1) * OrnamentsPerGroup + (i - 1))

GenHeapScattered(tape, base) ==
  [id \in ObjectIds |->
     IF id = tempVec THEN <<0, 0, 0>>
     ELSE OrnamentValues(tape, Groups[id[1]].type, base + DrawBase(id[1], id[2]))
            [IF id[3] = "currentPos" THEN "chaosPos" ELSE id[3]]]

\* usePhysicsOrnaments, for all five groups: the objects after generation
GenHeap(tape, base) ==
  [id \in ObjectIds |->
     IF id = tempVec THEN <<0, 0, 0>>
     ELSE OrnamentValues(tape, Groups[id[1]].type, base + DrawBase(id[1], id[2]))[id[3]]]

\* usePhysicsOrnaments, for all five groups: the items
GenItems(tape, base) ==
  [sl \in Slots |->
     LET v == OrnamentValues(tape, Groups[sl[1]].type, base + DrawBase(sl[1], sl[2]))
     IN  [ref |-> OrnamentRefs(sl[1], sl[2]), mass |-> v.mass, phase |-> v.phase]]

\* a.copy(b), a.sub(b), a.add(b), a.add(v) for a value v, a.multiplyScalar(k):
\* the receiver a is changed in place
HCopy(h, a, b) == [h EXCEPT ![a] = h[b]]
HSub(h, a, b) == [h EXCEPT ![a] = VSub(h[a], h[b])]
HAdd(h, a, b) == [h EXCEPT ![a] = VAdd(h[a], h[b])]
HAddV(h, a, v) == [h EXCEPT ![a] = VAdd(h[a], v)]
HScale(h, a, k) == [h EXCEPT ![a] = VScale(h[a], k)]

DestOfTarget(item, formed) == item.ref.targetPos

\* const dest = isFormed ? item.targetPos : item.chaosPos
DestOf(item, formed) == IF formed THEN item.ref.targetPos ELSE item.ref.chaosPos

\* tempVec.copy(dest).sub(item.currentPos).multiplyScalar(stiffness / item.mass)
SpringForce(h, item, dest, k) ==
  HScale(HSub(HCopy(h, tempVec, dest), tempVec, item.ref.currentPos), tempVec, k)

\* the chaos noise of an item at a time
Noise(time, phase, noiseStrength) ==
  <<FixMul(Sin(FixMul(time, 500000) + phase), noiseStrength),
    FixMul(Cos(FixMul(time, 300000) + FixMul(phase, 2 * Scale)), noiseStrength),
    FixMul(Sin(FixMul(time, 700000) + FixMul(phase, 500000)), noiseStrength)>>

VelocityStepUndamped(h, item, formed, time, stiffness, damping, noiseStrength) ==
  HAdd(SpringForce(h, item, DestOf(item, formed), FixDiv(stiffness, item.mass)),
       item.ref.velocity, tempVec)

\* item.velocity after the pull, the noise and the damping
VelocityStep(h, item, formed, time, stiffness, damping, noiseStrength) ==
  LET pulled == HAdd(SpringForce(h, item, DestOf(item, formed),
                                 FixDiv(stiffness, item.mass)),
                     item.ref.velocity, tempVec)
      noisy == IF ~formed
               THEN HAddV(pulled, item.ref.velocity, Noise(time, item.phase, noiseStrength))
               ELSE pulled
  IN  HScale(noisy, item.ref.velocity, damping)

PositionStepSeconds(h, item, dt) ==
  HAddV(h, item.ref.currentPos, VScale(h[item.ref.velocity], dt))

\* item.currentPos.add(item.velocity.clone().multiplyScalar(dt * 60))
PositionStep(h, item, dt) ==
  HAddV(h, item.ref.currentPos, VScale(h[item.ref.velocity], FixMul(dt, 60 * Scale)))

\* the rotation update of an item
RotationStep(h, item, formed) ==
  IF ~formed THEN HAdd(h, item.ref.rotation, item.ref.rotVelocity)
  ELSE HAddV(h, item.ref.rotation, <<0, 10000, 0>>)

UpdateItemMoveFirst(h, item, formed, time, dt, stiffness, damping, noiseStrength) ==
  RotationStep(
    VelocityStep(PositionStep(h, item, dt), item, formed, time, stiffness, damping,
                 noiseStrength),
    item, formed)

\* the body of the loop of updatePhysics for one item: the objects afterwards
UpdateItem(h, item, formed, time, dt, stiffness, damping, noiseStrength) ==
  RotationStep(
    PositionStep(
      VelocityStep(h, item, formed, time, stiffness, damping, noiseStrength),
      item, dt),
    item, formed)

\* tempObj after the update of item i (0-based): what setMatrixAt stores
MatrixOf(h, item, i, formed, time, scaleBase, orientToUp) ==
  [position |-> h[item.ref.currentPos],
   rotation |-> IF orientToUp /\ formed THEN <<PI, 0, 0>> ELSE h[item.ref.rotation],
   scale |-> scaleBase + FixMul(Sin(time + i * Scale), 50000)]

\* the slots in the order the frame callback visits them
SlotSeq == [k \in 1..(Len(Groups) * OrnamentsPerGroup) |->
              <<((k - 1) \div OrnamentsPerGroup) + 1, ((k - 1) % OrnamentsPerGroup) + 1>>]

\* updatePhysics for every group in turn: the objects after the first n slots
RECURSIVE UpdateAll(_, _, _, _, _, _)
UpdateAll(h, its, formed, time, dt, n) ==
  IF n = 0 THEN h
  ELSE LET sl == SlotSeq[n]
           g == Groups[sl[1]]
       IN  UpdateItem(UpdateAll(h, its, formed, time, dt, n - 1), its[sl], formed,
                      time, dt, g.stiffness, g.damping, g.noiseStrength)

ClampDeltaNone(delta) == delta

\* const dt = Math.min(delta, 0.1)
ClampDelta(delta) == Min(delta, 100000)

\* the colours set in the first frame: colour of instance i (0-based) of a group
ColorOf(name, i) ==
  IF name = "balls"
  THEN (IF i % 3 = 0 THEN "#8B0000" ELSE IF i % 3 = 1 THEN "#FFD700" ELSE "#B8860B")
  ELSE IF name = "boxes" THEN (IF i % 2 = 0 THEN "#003311" ELSE "#FFD700")
  ELSE IF name = "diamonds" THEN "#E0FFFF"
  ELSE IF name = "rings" THEN "#FFD700"
  ELSE "#FFFFFF"

InitialColors == [sl \in Slots |-> ColorOf(Groups[sl[1]].name, sl[2] - 1)]

(***************************************************************************)
(* The application: handlers and effects.                                  *)
(***************************************************************************)
\* no stand-alone updatePhysics run
NoHarness ==
  [stiffness |-> 0, damping |-> 0, noiseStrength |-> 0, scaleBase |-> 0,
   orientToUp |-> FALSE, delta |-> 0, start |-> <<0, 0, 0>>, overshot |-> FALSE]

\* an instance matrix before the first frame
IdentityMatrix == [position |-> <<0, 0, 0>>, rotation |-> <<0, 0, 0>>, scale |-> Scale]

\* camera={{ position: [0, 4, 20], fov: 45 }}, looking at the origin
InitialCamera ==
  [position |-> <<0, 4 * Scale, 20 * Scale>>, quaternion |-> <<"look", 0, -196116, -980581>>]

\* the App state after the first render
AppInit ==
  /\ treeState = "FORMED"
  /\ userPhotos = DEFAULT_PHOTOS
  /\ photoOffset = 0
  /\ revoked = {}
  /\ blobCount = 0
  /\ featuredIndex = 0
  /\ effectPending = TRUE
  /\ rollCount = 0
  /\ chaosCount = 0
  /\ toggleCount = 0
  /\ uploadCount = 0
  /\ hist = <<>>

\* the scene after the first render: everything generated from the random
\* draws of a tape, no frame drawn yet
SceneInit(tape) ==
  /\ geometry = GenParticles(tape, 0)
  /\ heap = GenHeap(tape, 100)
  /\ items = GenItems(tape, 100)
  /\ photoData = GenPhotoData(tape, 300)
  /\ instanceMatrix = [sl \in Slots |-> IdentityMatrix]
  /\ instanceColor = <<>>
  /\ uProgress = 0
  /\ uTime = 0
  /\ shaded = <<>>
  /\ photoMesh = [k \in 1..totalCount |-> NewPhotoMesh]
  /\ camera = InitialCamera
  /\ elapsedTime = 0
  /\ frameCount = 0
  /\ harness = NoHarness
  /\ photosView = RenderView(NoView, TRUE, DEFAULT_PHOTOS, 0)

Init == AppInit /\ \E tape \in Tapes : SceneInit(tape)

\* the handlers of the App do not read the scene: one scene stands for all
UiInit == AppInit /\ SceneInit(<<0, 0>>)

Upload == \E files \in FileLists : handlePhotoUpload(files)

Next ==
  \/ toggleState
  \/ PhotosEffect
  \/ handleNextPhoto
  \/ handlePrevPhoto
  \/ Upload

Spec == UiInit /\ [][Next]_vars

\* React runs the passive effects of a commit: a scheduled effect is not
\* postponed for ever
LiveSpec == Spec /\ WF_vars(PhotosEffect)

(***************************************************************************)
(* The render loop: one frame runs OrbitControls, then the useFrame         *)
(* callbacks of TreeParticles, Ornaments and every PhotoItem with the same *)
(* delta, then draws the scene.                                            *)
(***************************************************************************)
\* the frame deltas of the model, in seconds: 1/60, 1/10 and 1
Deltas == {Frac(1, 60), Frac(1, 10), Scale}

Frame(delta, pose) ==
  LET time == elapsedTime + delta
  IN  /\ frameCount < MaxFrames
      /\ ~photosView.error
      /\ frameCount' = frameCount + 1
      /\ elapsedTime' = time
      /\ camera' = pose
      /\ uTime' = time
      /\ uProgress' = ProgressLerp(uProgress, isFormed, delta)
      /\ heap' = UpdateAll(heap, items, isFormed, time, ClampDelta(delta), Len(SlotSeq))
      /\ instanceMatrix' =
           [sl \in Slots |-> MatrixOf(heap', items[sl], sl[2] - 1, isFormed, time,
                                      Groups[sl[1]].scaleBase, Groups[sl[1]].orientToUp)]
      /\ instanceColor' = IF instanceColor = <<>> THEN InitialColors ELSE instanceColor
      /\ photoMesh' =
           [k \in DOMAIN photoMesh |->
              PhotoItemFrame(photoMesh[k], photoData[k], isFormed, IsFeatured(k - 1),
                             pose, time, delta)]
      /\ shaded' \in VertexShader(geometry, uProgress', time)
      /\ hist' = Remember("frame", 0)
      /\ UNCHANGED <<items, geometry, photoData, harness, photosView>>
      /\ UNCHANGED <<treeState, userPhotos, photoOffset, revoked, blobCount,
                     featuredIndex, effectPending, rollCount, chaosCount,
                     toggleCount, uploadCount>>

RenderFrame == \E delta \in Deltas, pose \in CameraPoses : Frame(delta, pose)

FrameNext ==
  \/ toggleState
  \/ PhotosEffect
  \/ RenderFrame

FrameSpec == Init /\ [][FrameNext]_vars

(***************************************************************************)
(* updatePhysics on its own: one ornament, the mode held constant, noise   *)
(* strength zero, the same frame delta in every frame.                     *)
(***************************************************************************)
\* the ornament of a stand-alone run
PhysSlot == <<1, 1>>

PhysIds == {<<PhysSlot[1], PhysSlot[2], f>> : f \in VecFields} \cup {tempVec}

\* the (stiffness, damping, scaleBase, orientToUp) updatePhysics is called with
Archetypes ==
  {<<Groups[g].stiffness, Groups[g].damping, Groups[g].scaleBase, Groups[g].orientToUp>> :
     g \in 1..Len(Groups)}

\* masses of the range 0.5 + Math.random() * 1.5: both ends and 1
PhysMasses == {500000, Scale, 2 * Scale - 1}

\* frame deltas: 1 ms, a 144 Hz, a 60 Hz and a 30 Hz display, the value
\* Math.min(delta, 0.1) clamps at, and a stalled frame of one second
PhysDeltas == {Frac(1, 1000), Frac(1, 144), Frac(1, 60), Frac(1, 30), Frac(1, 10), Scale}

\* the chaos and the target position of a generated ornament
PhysEnds == OrnamentValues(<<1, 1>>, "outer", 100)

\* the runs: an example entity pulled from the origin to (10, 0, 0) at 60
\* frames a second; a generated ornament pulled from its target position to
\* its chaos position (CHAOS) or back (FORMED) with the arguments of each
\* updatePhysics call of the program, at every mass and frame delta; and the
\* same ornament in a call with a stiffness and a damping the program does
\* not use (0.001 and 0.5)
Scenarios ==
  {[stiffness |-> 50000, damping |-> 920000, scaleBase |-> Scale, orientToUp |-> FALSE,
    mass |-> Scale, delta |-> Frac(1, 60), formed |-> TRUE,
    start |-> <<0, 0, 0>>, dest |-> <<10 * Scale, 0, 0>>]}
  \cup
  {[stiffness |-> a[1], damping |-> a[2], scaleBase |-> a[3], orientToUp |-> a[4],
    mass |-> m, delta |-> d, formed |-> f,
    start |-> IF f THEN PhysEnds.chaosPos ELSE PhysEnds.targetPos,
    dest |-> IF f THEN PhysEnds.targetPos ELSE PhysEnds.chaosPos] :
     a \in Archetypes, m \in PhysMasses, d \in PhysDeltas, f \in BOOLEAN}
  \cup
  {[stiffness |-> Limb, damping |-> 500000, scaleBase |-> Scale, orientToUp |-> FALSE,
    mass |-> Scale, delta |-> Frac(1, 60), formed |-> TRUE,
    start |-> PhysEnds.chaosPos, dest |-> PhysEnds.targetPos]}

\* the objects of the ornament of a run
PhysHeap(sc) ==
  [id \in PhysIds |->
     IF id = tempVec THEN <<0, 0, 0>>
     ELSE IF id[3] = "currentPos" THEN sc.start
     ELSE IF id[3] = (IF sc.formed THEN "targetPos" ELSE "chaosPos") THEN sc.dest
     ELSE IF id[3] \in {"targetPos", "chaosPos"} THEN sc.start
     ELSE <<0, 0, 0>>]

PhysItem == items[PhysSlot]

\* the destination and the position of the ornament of a run
PhysDest == heap[DestOf(PhysItem, isFormed)]
PhysPos == heap[PhysItem.ref.currentPos]

PhysInit ==
  \E sc \in Scenarios :
    /\ treeState = IF sc.formed THEN "FORMED" ELSE "CHAOS"
    /\ heap = PhysHeap(sc)
    /\ items = [sl \in {PhysSlot} |->
                  [ref |-> OrnamentRefs(sl[1], sl[2]), mass |-> sc.mass, phase |-> 0]]
    /\ harness = [stiffness |-> sc.stiffness, damping |-> sc.damping,
                  noiseStrength |-> 0, scaleBase |-> sc.scaleBase,
                  orientToUp |-> sc.orientToUp, delta |-> sc.delta, start |-> sc.start,
                  overshot |-> FALSE]
    /\ userPhotos = DEFAULT_PHOTOS
    /\ photoOffset = 0
    /\ revoked = {}
    /\ blobCount = 0
    /\ featuredIndex = 0
    /\ effectPending = FALSE
    /\ rollCount = 0
    /\ chaosCount = 0
    /\ toggleCount = 0
    /\ uploadCount = 0
    /\ hist = <<>>
    /\ geometry = <<>>
    /\ photoData = <<>>
    /\ instanceMatrix = [sl \in {PhysSlot} |-> IdentityMatrix]
    /\ instanceColor = <<>>
    /\ uProgress = 0
    /\ uTime = 0
    /\ shaded = <<>>
    /\ photoMesh = <<>>
    /\ camera = InitialCamera
    /\ elapsedTime = 0
    /\ frameCount = 0
    /\ photosView = NoView

\* one frame of the run: the loop body of updatePhysics for the ornament
PhysFrame ==
  LET time == elapsedTime + harness.delta
      after == UpdateItem(heap, PhysItem, isFormed, time, ClampDelta(harness.delta),
                          harness.stiffness, harness.damping, harness.noiseStrength)
  IN  /\ frameCount < PhysFrames
      /\ frameCount' = frameCount + 1
      /\ elapsedTime' = time
      /\ heap' = after
      /\ instanceMatrix' =
           [sl \in {PhysSlot} |->
              MatrixOf(after, PhysItem, PhysSlot[2] - 1, isFormed, time,
                       harness.scaleBase, harness.orientToUp)]
      /\ harness' = [harness EXCEPT !.overshot =
                       @ \/ ~PairLE(DistSq(after[PhysItem.ref.currentPos],
                                           after[DestOf(PhysItem, isFormed)]),
                                    DistSq(PhysPos, PhysDest))]
      /\ UNCHANGED <<treeState, userPhotos, photoOffset, revoked, blobCount,
                     featuredIndex, effectPending, rollCount, chaosCount,
                     toggleCount, uploadCount, hist>>
      /\ UNCHANGED <<items, instanceColor, geometry, uProgress,
                     uTime, shaded, photoData, photoMesh, camera, photosView>>

PhysSpec == PhysInit /\ [][PhysFrame]_vars

(***************************************************************************)
(* The vertex shader on its own: the foliage is drawn with uProgress set   *)
(* to the values of a grid over [0, 1].                                    *)
(***************************************************************************)
ProgressGrid == {Frac(k, GridSteps) : k \in 0..GridSteps}

EaseInit ==
  /\ AppInit
  /\ \E tape \in Tapes : geometry = GenParticles(tape, 0)
  /\ heap = <<>>
  /\ items = <<>>
  /\ photoData = <<>>
  /\ instanceMatrix = <<>>
  /\ instanceColor = <<>>
  /\ uProgress = 0
  /\ uTime = 0
  /\ shaded = <<>>
  /\ photoMesh = <<>>
  /\ camera = InitialCamera
  /\ elapsedTime = 0
  /\ frameCount = 0
  /\ harness = NoHarness
  /\ photosView = NoView

\* the uniform is set to a grid value and the points are drawn
DrawAt(progress) ==
  /\ uProgress' = progress
  /\ shaded' \in VertexShader(geometry, progress, uTime)
  /\ UNCHANGED appVars
  /\ UNCHANGED <<heap, items, instanceMatrix, instanceColor, geometry, uTime,
                 photoData, photoMesh, camera, elapsedTime, frameCount, harness,
                 photosView>>

ShaderRun == \E progress \in ProgressGrid : DrawAt(progress)

EaseSpec == EaseInit /\ [][ShaderRun]_vars

(***************************************************************************)
(* Generation on its own: the three useMemo generators run, each from a    *)
(* random stream of its own, in any order.                                 *)
(***************************************************************************)
\* every random stream: a repeated value, or all values in turn from any start
AllTapes == {<<a, b>> : a \in {0, 1}, b \in 0..RandSteps}

\* nothing is generated before the first render
GenInit ==
  /\ AppInit
  /\ geometry = <<>>
  /\ heap = <<>>
  /\ items = <<>>
  /\ photoData = <<>>
  /\ instanceMatrix = <<>>
  /\ instanceColor = <<>>
  /\ uProgress = 0
  /\ uTime = 0
  /\ shaded = <<>>
  /\ photoMesh = <<>>
  /\ camera = InitialCamera
  /\ elapsedTime = 0
  /\ frameCount = 0
  /\ harness = NoHarness
  /\ photosView = NoView

\* the useMemo of TreeParticles
GenerateFoliage ==
  /\ geometry = <<>>
  /\ \E tape \in AllTapes : geometry' = GenParticles(tape, 0)
  /\ UNCHANGED appVars
  /\ UNCHANGED <<heap, items, instanceMatrix, instanceColor, uProgress, uTime, shaded,
                 photoData, photoMesh, camera, elapsedTime, frameCount, harness,
                 photosView>>

\* the five usePhysicsOrnaments calls of Ornaments
GenerateOrnaments ==
  /\ items = <<>>
  /\ \E tape \in AllTapes :
       /\ heap' = GenHeap(tape, 100)
       /\ items' = GenItems(tape, 100)
  /\ UNCHANGED appVars
  /\ UNCHANGED <<instanceMatrix, instanceColor, geometry, uProgress, uTime, shaded,
                 photoData, photoMesh, camera, elapsedTime, frameCount, harness,
                 photosView>>

\* the useMemo of Photos
GeneratePhotos ==
  /\ photoData = <<>>
  /\ \E tape \in AllTapes : photoData' = GenPhotoData(tape, 300)
  /\ UNCHANGED appVars
  /\ UNCHANGED <<heap, items, instanceMatrix, instanceColor, geometry, uProgress, uTime,
                 shaded, photoMesh, camera, elapsedTime, frameCount, harness, photosView>>

GenNext ==
  \/ GenerateFoliage
  \/ GenerateOrnaments
  \/ GeneratePhotos

GenSpec == GenInit /\ [][GenNext]_vars

(***************************************************************************)
(* Photos on its own: a parent renders it with any props, the textures of  *)
(* its items settle, and frames are drawn (src/unnamed/part_000:193-262).  *)
(***************************************************************************)
MaxRenders == 2

ViewLists == {<<>>, SubSeq(DEFAULT_PHOTOS, 1, 1), SubSeq(DEFAULT_PHOTOS, 1, 2)}

\* the random draws of a photoData generated again
ViewTapes == {<<0, 0>>, <<1, 1>>}

\* the props userPhotos (given or not) and photoOffset
ViewProps ==
  {[given |-> FALSE, list |-> <<>>, offset |-> 0]}
    \cup {[given |-> TRUE, list |-> l, offset |-> o] :
            <<l, o>> \in {<<list, offset>> \in ViewLists \X (0..1) :
                             offset < Max(1, Len(list))}}

\* the hooks of Photos and its items when a render calls the hooks for the
\* first time: useState(0), the useMemo of photoData, the effect scheduled
MountPhotos(tape) ==
  /\ featuredIndex' = 0
  /\ effectPending' = TRUE
  /\ photoData' = GenPhotoData(tape, 300)
  /\ photoMesh' = [k \in 1..totalCount |-> NewPhotoMesh]

\* a render that returns null before the hooks: their state is dropped and
\* the items are unmounted
UnmountPhotos ==
  /\ featuredIndex' = 0
  /\ effectPending' = FALSE
  /\ photoData' = <<>>
  /\ photoMesh' = <<>>

ViewInit ==
  /\ treeState = "FORMED"
  /\ revoked = {}
  /\ blobCount = 0
  /\ rollCount = 0
  /\ chaosCount = 0
  /\ toggleCount = 0
  /\ uploadCount = 0
  /\ hist = <<>>
  /\ geometry = GenParticles(<<0, 0>>, 0)
  /\ heap = GenHeap(<<0, 0>>, 100)
  /\ items = GenItems(<<0, 0>>, 100)
  /\ instanceMatrix = [sl \in Slots |-> IdentityMatrix]
  /\ instanceColor = <<>>
  /\ uProgress = 0
  /\ uTime = 0
  /\ shaded = <<>>
  /\ camera = InitialCamera
  /\ elapsedTime = 0
  /\ frameCount = 0
  /\ harness = [renders |-> 0]
  /\ \E props \in ViewProps :
       /\ userPhotos = props.list
       /\ photoOffset = props.offset
       /\ photosView = RenderView(NoView, props.given, props.list, props.offset)
       /\ featuredIndex = 0
       /\ effectPending = ~RendersNothing(props.given, props.list)
       /\ photoData = IF RendersNothing(props.given, props.list) THEN <<>>
                      ELSE GenPhotoData(<<0, 0>>, 300)
       /\ photoMesh = IF RendersNothing(props.given, props.list) THEN <<>>
                      ELSE [k \in 1..totalCount |-> NewPhotoMesh]

\* the parent renders Photos again with other props
RenderPhotos(props) ==
  LET view == RenderView(photosView, props.given, props.list, props.offset)
  IN  /\ harness.renders < MaxRenders
      /\ ~photosView.error
      /\ harness' = [harness EXCEPT !.renders = @ + 1]
      /\ userPhotos' = props.list
      /\ photoOffset' = props.offset
      /\ photosView' = view
      /\ IF photosView.hooks = 0 /\ view.hooks > 0
         THEN \E tape \in ViewTapes : MountPhotos(tape)
         ELSE IF photosView.hooks > 0 /\ view.hooks = 0
         THEN UnmountPhotos
         ELSE UNCHANGED <<featuredIndex, effectPending, photoData, photoMesh>>
      /\ hist' = Remember("render", 0)
      /\ UNCHANGED <<treeState, revoked, blobCount, rollCount, chaosCount, toggleCount,
                     uploadCount, heap, items, instanceMatrix, instanceColor,
                     geometry, uProgress, uTime, shaded, camera, elapsedTime, frameCount>>

\* an item rendered PhotoPlaneContent with this URL and its boundary has
\* caught no error: a change of the texture of the URL makes React render it again
Waiting(view, url) ==
  /\ view.output = "group"
  /\ \E k \in 1..totalCount : view.urls[k] = url /\ ~view.caught[k]

\* the load of a texture ends: the promise of useTexture settles and the
\* cache gets the texture or the error; React renders the items that wait
\* for it in a later task
TextureSettles(url, outcome) ==
  /\ ~photosView.error
  /\ url \in DOMAIN photosView.tex
  /\ photosView.tex[url] = "loading"
  /\ photosView' = [photosView EXCEPT !.tex[url] = outcome,
                                      !.retry = @ \/ Waiting(photosView, url)]
  /\ UNCHANGED <<appVars, sceneVars>>

\* React renders the suspended items again after a load has ended
RetryRender ==
  /\ ~photosView.error
  /\ photosView.retry
  /\ photosView' = RenderView(photosView, photosView.given, userPhotos, photoOffset)
  /\ UNCHANGED <<appVars, sceneVars>>

TextureLoads == \E url \in DOMAIN photosView.tex : TextureSettles(url, "loaded")

TextureFails == \E url \in DOMAIN photosView.tex : TextureSettles(url, "failed")

ViewRender == \E props \in ViewProps : RenderPhotos(props)

ViewFrame == Frame(Frac(1, 60), InitialCamera)

ViewNext ==
  \/ ViewRender
  \/ TextureLoads
  \/ TextureFails
  \/ RetryRender
  \/ PhotosEffect
  \/ ViewFrame

ViewSpec == ViewInit /\ [][ViewNext]_vars

(***************************************************************************)
(* Claims about the App handlers and the Photos effect.                    *)
(***************************************************************************)
LastOp == hist[Len(hist)]

\* the last two handler calls were a and then b
LastTwo(a, b) == Len(hist) = 2 /\ hist[1].op = a /\ hist[2].op = b

\* C1: handleNextPhoto followed by handlePrevPhoto, and handlePrevPhoto followed
\* by handleNextPhoto, return photoOffset to the value it had before the two
\* calls, for every photo list (length >= 1) and offset the program reaches.
C1_NextPrevRoundTrip ==
  (Len(userPhotos) >= 1 /\ (LastTwo("next", "prev") \/ LastTwo("prev", "next")))
    => photoOffset = hist[1].offset

\* next from the last slot wraps to 0, prev comes back to the last slot
C1_Witness ==
  /\ LastTwo("next", "prev")
  /\ Len(userPhotos) >= 2
  /\ hist[1].offset = Len(userPhotos) - 1
  /\ hist[2].offset = 0
  /\ photoOffset = Len(userPhotos) - 1

\* the claimed behaviour of uProgress within one frame
C2_FrameMonotone ==
  (frameCount' = frameCount + 1) =>
    /\ isFormed => uProgress' >= uProgress
    /\ ~isFormed => uProgress' <= uProgress

\* C2: over every sequence of frames (deltas 1/60 s, 1/10 s and 1 s) and mode
\* toggles, uProgress stays within [0, 1], does not decrease in a frame while
\* the mode is FORMED and does not increase in a frame while it is CHAOS.
C2_ProgressClamped ==
  /\ [](0 <= uProgress /\ uProgress <= Scale)
  /\ [][C2_FrameMonotone]_vars

\* C3: after two toggleState calls with no frame in between, the mode is the
\* mode before the two calls, and the destination the next frame selects for
\* every ornament (the object and its value) is the one selected before them.
C3_DoubleToggle ==
  LastTwo("toggle", "toggle") =>
    /\ treeState = hist[1].mode
    /\ \A sl \in Slots :
         /\ DestOf(items[sl], isFormed) = DestOf(items[sl], hist[1].mode = "FORMED")
         /\ heap[DestOf(items[sl], isFormed)] =
              heap[DestOf(items[sl], hist[1].mode = "FORMED")]

\* CHAOS -> FORMED -> CHAOS after a frame was drawn, chaos and target apart
C3_Witness ==
  /\ LastTwo("toggle", "toggle")
  /\ hist[1].mode = "CHAOS"
  /\ treeState = "CHAOS"
  /\ frameCount >= 1
  /\ \A sl \in Slots : heap[items[sl].ref.chaosPos] # heap[items[sl].ref.targetPos]

\* C4: featuredIndex is an integer in [0, totalCount), so exactly one of the
\* totalCount = 12 photo items is marked featured.
C4_FeaturedInRange ==
  /\ featuredIndex \in 0..(totalCount - 1)
  /\ Cardinality({i \in 0..(totalCount - 1) : IsFeatured(i)}) = 1

\* the largest random value was rolled: the last photo item is featured
C4_Witness == rollCount >= 1 /\ featuredIndex = totalCount - 1

\* C5: after a handlePhotoUpload that replaced the photo list (at least one
\* image file in the upload), photoOffset is 0.
C5_UploadResetsOffset ==
  (Len(hist) >= 1 /\ LastOp.op = "upload" /\ LastOp.n > 0) => photoOffset = 0

\* an upload of images arrived while the slideshow was at a nonzero offset
C5_Witness ==
  /\ Len(hist) >= 1
  /\ LastOp.op = "upload"
  /\ LastOp.n > 0
  /\ LastOp.offset > 0
  /\ photoOffset = 0

\* every transition to CHAOS has had its setFeaturedIndex, or has it pending
C6_RollPerChaos ==
  chaosCount = rollCount + (IF effectPending /\ ~isFormed THEN 1 ELSE 0)

\* C6: the featured index is re-rolled once on every transition of the mode to
\* CHAOS and on no transition to FORMED: the number of setFeaturedIndex calls
\* follows the number of transitions to CHAOS, a step that makes isFormed true
\* leaves featuredIndex alone, and the re-roll of every transition to CHAOS
\* does happen.
C6_RerollOnChaosOnly ==
  /\ []C6_RollPerChaos
  /\ [][(~isFormed /\ isFormed') =>
          (featuredIndex' = featuredIndex /\ rollCount' = rollCount)]_vars
  /\ \A n \in 1..MaxToggles : (chaosCount = n) ~> (rollCount = n)

\* CHAOS was entered and re-rolled, and FORMED was entered again with its
\* effect run
C6_Witness ==
  /\ rollCount >= 1
  /\ toggleCount >= 2
  /\ isFormed
  /\ ~effectPending

\* the objects of an ornament that a frame must leave alone, and the values
\* of a photo item
C7_Kept ==
  /\ items' = items
  /\ \A sl \in Slots :
       /\ heap'[items[sl].ref.chaosPos] = heap[items[sl].ref.chaosPos]
       /\ heap'[items[sl].ref.targetPos] = heap[items[sl].ref.targetPos]
       /\ heap'[items[sl].ref.rotVelocity] = heap[items[sl].ref.rotVelocity]
  /\ \A k \in 1..totalCount :
       /\ photoData'[k].chaos = photoData[k].chaos
       /\ photoData'[k].target = photoData[k].target

\* C7: no frame, no toggle and no effect changes the chaos position or the
\* target position of an ornament or of a photo item: updatePhysics changes
\* currentPos, velocity and rotation (and the scratch vector), the PhotoItem
\* frame update changes the mesh position, quaternion and scale.
C7_ChaosTargetImmutable == [][C7_Kept]_vars

\* two frames in CHAOS have moved every ornament off its target position and
\* every photo mesh off its mount position
C7_Witness ==
  /\ frameCount = MaxFrames
  /\ ~isFormed
  /\ LastTwo("frame", "frame")
  /\ hist[1].mode = "CHAOS"
  /\ \A sl \in Slots : heap[items[sl].ref.currentPos] # heap[items[sl].ref.targetPos]
  /\ \A k \in 1..totalCount : photoMesh[k].position # NewPhotoMesh.position

\* the squared distance 0.01^2
Tolerance == <<100, 0>>

\* the run of the example entity: mass 1, stiffness 0.05, damping 0.92, from
\* the origin to (10, 0, 0) with dt = 1/60
IsExampleRun ==
  /\ harness.stiffness = 50000
  /\ harness.damping = 920000
  /\ harness.delta = Frac(1, 60)
  /\ harness.start = <<0, 0, 0>>
  /\ PhysItem.mass = Scale
  /\ PhysDest = <<10 * Scale, 0, 0>>

\* the distance to the destination does not grow in a frame
C8_FrameCloser ==
  (frameCount' = frameCount + 1) =>
    PairLE(DistSq(heap'[PhysItem.ref.currentPos], PhysDest), DistSq(PhysPos, PhysDest))

\* C8 as stated: with the mode constant and no noise, the distance of an
\* ornament to its destination decreases from frame to frame, and the position
\* has converged when the run ends.
C8_MonotoneConvergence ==
  /\ [][C8_FrameCloser]_vars
  /\ [](frameCount = PhysFrames => PairLE(DistSq(PhysPos, PhysDest), Tolerance))

\* the run calls updatePhysics with the stiffness and damping of one of the
\* calls of the program
IsProgramRun ==
  \E g \in 1..Len(Groups) :
    harness.stiffness = Groups[g].stiffness /\ harness.damping = Groups[g].damping

\* the run of the heaviest box at a frame delta of 1 ms
IsSlowRun ==
  /\ harness.stiffness = Groups[2].stiffness
  /\ harness.damping = Groups[2].damping
  /\ PhysItem.mass = 2 * Scale - 1
  /\ harness.delta = Frac(1, 1000)

\* C8, amended: with the mode constant and no noise, for the stiffness and
\* damping pairs the program passes to updatePhysics, masses 0.5, 1 and 2
\* and frame deltas from 1 ms to 1 s, an ornament released at rest is never
\* farther from its destination than it was at the start; at frame deltas
\* of 1/144 s and longer it is within 0.01 of the destination from frame
\* 400 on.  The bound of 400 frames does not hold for shorter frames (the
\* heaviest box at 1 ms) nor for other constants (stiffness 0.001, damping
\* 0.5), and the distance is not monotone.
C8_BoundedConvergence ==
  /\ IsProgramRun =>
       PairLE(DistSq(PhysPos, PhysDest), DistSq(harness.start, PhysDest))
  /\ (IsProgramRun /\ harness.delta >= Frac(1, 144) /\ frameCount >= 400) =>
       PairLE(DistSq(PhysPos, PhysDest), Tolerance)
  /\ (IsSlowRun /\ frameCount = 400) => ~PairLE(DistSq(PhysPos, PhysDest), Tolerance)
  /\ (~IsProgramRun /\ frameCount = PhysFrames) =>
       ~PairLE(DistSq(PhysPos, PhysDest), Tolerance)

\* a generated ornament has overshot its chaos position and settled there
C8_Witness ==
  /\ frameCount = PhysFrames
  /\ ~isFormed
  /\ harness.overshot
  /\ ~PairLE(DistSq(harness.start, PhysDest), Tolerance)
  /\ PairLE(DistSq(PhysPos, PhysDest), Tolerance)

\* C9: the example entity (mass 1, stiffness 0.05, damping 0.92, destination
\* (10, 0, 0), released at rest at the origin, no noise) is within 0.01 units
\* of (10, 0, 0) after 600 updatePhysics steps with dt = 1/60.
C9_ExampleSettles ==
  (IsExampleRun /\ frameCount = 600) =>
    PairLE(DistSq(PhysPos, <<10 * Scale, 0, 0>>), Tolerance)

\* the example run after its 600th step, off the origin
C9_Witness ==
  /\ IsExampleRun
  /\ frameCount = 600
  /\ PhysPos # harness.start
  /\ heap[PhysItem.ref.velocity][2] = 0

\* the eased progress of the last draw
Drawn == shaded # <<>>
EasedT == shaded[1].t

\* a later draw at a greater progress has a greater eased progress
C10_EaseIncreases ==
  (Drawn /\ Drawn' /\ uProgress' > uProgress) => shaded'[1].t > shaded[1].t

\* C10: easeOutCubic(0) = 0 and easeOutCubic(1) = 1, so that a particle drawn
\* at progress 0 is at its chaos position and one drawn at progress 1 is at
\* its target position (before the wind offset), and easeOutCubic is strictly
\* increasing over the progress values k/100 of [0, 1].
C10_EaseOutCubic ==
  /\ [](Drawn =>
          \A k \in DOMAIN shaded :
            /\ ~shaded[k].nan
            /\ uProgress = 0 =>
                 (shaded[k].t = 0 /\ shaded[k].mixed = geometry[k].position)
            /\ uProgress = Scale =>
                 (shaded[k].t = Scale /\ shaded[k].mixed = geometry[k].aTargetPos))
  /\ [][C10_EaseIncreases]_vars

\* the points were drawn at progress 1, chaos and target positions apart
C10_Witness ==
  /\ Drawn
  /\ uProgress = Scale
  /\ EasedT = Scale
  /\ \A k \in DOMAIN shaded :
       /\ geometry[k].position # geometry[k].aTargetPos
       /\ shaded[k].mixed = geometry[k].aTargetPos

(***************************************************************************)
(* Claims about the generated positions.                                   *)
(***************************************************************************)
\* the slack of a comparison of lengths: 0.001
Eps == Scale \div Limb

\* the radius of the tree cone at height y
ConeRadius(y) == FixMul(Scale - FixDiv(y, treeHeight * Scale), treeRadius * Scale)

\* the squared distance of a point from the axis of the tree
HorizSq(p) == PairAdd(SqPair(Abs(p[1])), SqPair(Abs(p[3])))

\* p is no farther than radius from centre
WithinSphere(p, centre, radius) == PairLE(DistSq(p, centre), SqPair(radius + Eps))

\* p has a height in [0, top] and is no farther from the axis than factor
\* times the cone radius at its height, plus offset
WithinCone(p, top, factor, offset) ==
  /\ 0 <= p[2]
  /\ p[2] <= top
  /\ PairLE(HorizSq(p), SqPair(FixMul(ConeRadius(p[2]), factor) + offset + Eps))

\* p is no nearer than radius to centre
BeyondSphere(p, centre, radius) == PairLE(SqPair(Max(radius - Eps, 0)), DistSq(p, centre))

\* p is no nearer to the axis than factor times the cone radius at its
\* height, plus offset
BeyondCone(p, factor, offset) ==
  PairLE(SqPair(Max(FixMul(ConeRadius(p[2]), factor) + offset - Eps, 0)), HorizSq(p))

\* the narrowest an archetype makes levelRadius, as a factor of the cone radius
NarrowestFactor(type) ==
  IF type = "inner" THEN 500000 ELSE IF type = "outer" THEN 900000 ELSE Scale

\* the widest an archetype makes levelRadius, as a factor of the cone radius
WidestFactor(type) ==
  IF type = "inner" THEN 800000 ELSE IF type = "outer" THEN 1100000 ELSE Scale

\* C11 as stated: every chaos position lies inside the scatter sphere of its
\* batch (radius 15 about (0, 7, 0) for the foliage, 18 + 5 about the origin
\* for the ornaments, half the scatter extent 35 about the origin for the
\* photos) and every target position lies within the tree cone.
C11_SphereAndCone ==
  /\ \A k \in DOMAIN geometry :
       /\ WithinSphere(geometry[k].position, <<0, 7 * Scale, 0>>, 15 * Scale)
       /\ WithinCone(geometry[k].aTargetPos, treeHeight * Scale, Scale, 0)
  /\ \A sl \in DOMAIN items :
       /\ WithinSphere(heap[items[sl].ref.chaosPos], <<0, 0, 0>>, 23 * Scale)
       /\ WithinCone(heap[items[sl].ref.targetPos], treeHeight * Scale, Scale, 0)
  /\ \A k \in DOMAIN photoData :
       /\ WithinSphere(photoData[k].chaos, <<0, 0, 0>>, 17500000)
       /\ WithinCone(photoData[k].target, treeHeight * Scale, Scale, 0)

\* C11, amended: a foliage particle has its chaos position within 15 of
\* (0, 7, 0) and its target on the surface of the cone, at a height in
\* [0, treeHeight]; an ornament has its chaos position at a distance in
\* [5, 23] from the origin and its target at a height in [0, 0.9 treeHeight],
\* at 0.9 to 1.1 (outer), 0.5 to 0.8 (inner) or 1 (scatter) times the cone
\* radius from the axis; a photo has its chaos position in the box
\* [-17.5, 17.5] x [-5, 10] x [-17.5, 17.5] and its target at a height in
\* [2, 0.7 treeHeight + 2], 0.6 outside the cone.  Lengths are compared with
\* a slack of 0.001.
C11_GeneratedBounds ==
  /\ \A k \in DOMAIN geometry :
       /\ WithinSphere(geometry[k].position, <<0, 7 * Scale, 0>>, 15 * Scale)
       /\ WithinCone(geometry[k].aTargetPos, treeHeight * Scale, Scale, 0)
       /\ BeyondCone(geometry[k].aTargetPos, Scale, 0)
  /\ \A sl \in DOMAIN items :
       /\ WithinSphere(heap[items[sl].ref.chaosPos], <<0, 0, 0>>, 23 * Scale)
       /\ BeyondSphere(heap[items[sl].ref.chaosPos], <<0, 0, 0>>, 5 * Scale)
       /\ WithinCone(heap[items[sl].ref.targetPos], FixMul(treeHeight * Scale, 900000),
                     WidestFactor(Groups[sl[1]].type), 0)
       /\ BeyondCone(heap[items[sl].ref.targetPos], NarrowestFactor(Groups[sl[1]].type), 0)
  /\ \A k \in DOMAIN photoData :
       /\ \A c \in {1, 3} : Abs(photoData[k].chaos[c]) <= 17500000
       /\ -5 * Scale <= photoData[k].chaos[2]
       /\ photoData[k].chaos[2] <= 10 * Scale
       /\ 2 * Scale <= photoData[k].target[2]
       /\ WithinCone(photoData[k].target, FixMul(treeHeight * Scale, 700000) + 2 * Scale,
                     Scale, 600000)
       /\ BeyondCone(photoData[k].target, Scale, 600000)

\* everything is generated; an ornament has its chaos position within 6 of
\* the origin, an outer ornament and a photo have their targets outside the
\* cone, and a photo has its chaos position farther than 23 away
C11_Witness ==
  /\ geometry # <<>>
  /\ \E sl \in DOMAIN items :
       ~BeyondSphere(heap[items[sl].ref.chaosPos], <<0, 0, 0>>, 6 * Scale)
  /\ \E sl \in DOMAIN items :
       /\ Groups[sl[1]].type = "outer"
       /\ ~WithinCone(heap[items[sl].ref.targetPos], treeHeight * Scale, Scale, 0)
  /\ \E k \in DOMAIN photoData :
       /\ ~WithinCone(photoData[k].target, treeHeight * Scale, Scale, 0)
       /\ ~WithinSphere(photoData[k].chaos, <<0, 0, 0>>, 23 * Scale)

(***************************************************************************)
(* Claims about Photos as rendered (ViewSpec).                             *)
(***************************************************************************)
\* the photo list of the last render of Photos is missing or empty
NothingToShow == ~photosView.given \/ userPhotos = <<>>

\* Claim C12: when the photo list is missing or empty, Photos renders
\* nothing (no group, no mounted item, no hook called) and no error reaches
\* the error boundary of the application, whatever was rendered before; a
\* frame drawn in that state still moves the ornaments.
C12_EmptyRendersNothing ==
  /\ [](/\ ~photosView.error
        /\ NothingToShow =>
             /\ photosView.output = "null"
             /\ photosView.hooks = 0
             /\ photoMesh = <<>>
        /\ ~NothingToShow =>
             /\ photosView.output = "group"
             /\ Len(photoMesh) = totalCount)
  /\ [][(NothingToShow /\ frameCount' > frameCount) =>
          (heap' # heap /\ instanceMatrix' # instanceMatrix)]_vars

\* a mounted Photos with textures asked for was rendered again with an empty
\* list, and a frame was drawn after that
C12_Witness ==
  /\ photosView.given
  /\ userPhotos = <<>>
  /\ photosView.output = "null"
  /\ DOMAIN photosView.tex # {}
  /\ harness.renders > 0
  /\ Len(hist) > 0
  /\ LastOp.op = "frame"
  /\ instanceColor # <<>>

\* the texture of the URL item k (1-based) was last rendered with; no item
\* may have asked for it
TextureOf(k) ==
  IF photosView.urls[k] \in DOMAIN photosView.tex
  THEN photosView.tex[photosView.urls[k]]
  ELSE "idle"

\* Claim C13: image loading is isolated per photo item: once React has
\* rendered the items after the last load ended, an item whose texture is
\* loading or has failed shows the placeholder material and every item whose
\* texture has loaded shows its texture; no load failure reaches the error
\* boundary of the application.
C13_IsolatedLoading ==
  /\ ~photosView.error
  /\ (photosView.output = "group" /\ ~photosView.retry) =>
       \A k \in 1..totalCount :
         /\ TextureOf(k) \in {"loading", "failed"} => Material(photosView, k) = "placeholder"
         /\ TextureOf(k) = "loaded" => Material(photosView, k) = "texture"

\* the elements of a list
Range(list) == {list[j] : j \in 1..Len(list)}

\* Claim C14: for every slot index i in [0, 12), every non-empty photo list
\* and every photoOffset, the URL item i is rendered with, getUrl(i), is the
\* element of the list at position (i + photoOffset) mod length, an element
\* of the list; for an empty list getUrl(i) is the empty string.
C14_GetUrl ==
  /\ ~NothingToShow =>
       \A i \in 0..(totalCount - 1) :
         /\ photosView.urls[i + 1] =
              userPhotos[((i + photoOffset) % Len(userPhotos)) + 1]
         /\ photosView.urls[i + 1] \in Range(userPhotos)
         /\ GetUrl(userPhotos, photoOffset, i) = photosView.urls[i + 1]
  /\ \A i \in 0..(totalCount - 1) : GetUrl(<<>>, photoOffset, i) = EmptyString

\* items rendered with a list of two photos and offset 1: the index wraps
\* round for every item but the first
C14_Witness ==
  /\ photosView.output = "group"
  /\ Len(userPhotos) = 2
  /\ photoOffset = 1
  /\ photosView.urls[1] = userPhotos[2]
  /\ photosView.urls[totalCount] = userPhotos[1]
  /\ harness.renders > 0

(***************************************************************************)
(* Claims about the destinations of a frame (FrameSpec).                   *)
(***************************************************************************)
\* a frame is drawn in this step
IsFrame == frameCount' = frameCount + 1

\* the delta of the frame drawn in this step
FrameDelta == elapsedTime' - elapsedTime

\* camera position + 5 * forward, for the camera of the frame drawn
CameraFront ==
  LET f == ApplyToMinusZ(camera'.quaternion)
  IN  <<camera'.position[1] + 5 * f[1], camera'.position[2] + 5 * f[2],
        camera'.position[3] + 5 * f[3]>>

\* the velocity updatePhysics leaves in an ornament that heads for dest
VelocityTowards(sl, dest) ==
  LET g == Groups[sl[1]]
      it == items[sl]
      pull == VScale(VSub(dest, heap[it.ref.currentPos]), FixDiv(g.stiffness, it.mass))
      noise == IF treeState = "FORMED" THEN <<0, 0, 0>>
               ELSE Noise(elapsedTime', it.phase, g.noiseStrength)
  IN  VScale(VAdd(VAdd(heap[it.ref.velocity], pull), noise), g.damping)

\* the position the frame leaves a photo item at when it heads for dest
PositionTowards(k, dest) ==
  VLerp(photoMesh[k].position, dest,
        FixMul(FrameDelta, IF k - 1 = featuredIndex THEN 2 * Scale ELSE 1500000))

\* Claim C15: in every frame an ornament heads for its target position when
\* the mode is FORMED and for its chaos position in CHAOS; a photo item
\* heads for its tree target in FORMED, featured or not, and in CHAOS for
\* its chaos position, except the featured one, which heads for the point
\* in front of the camera.
C15_Destination ==
  [][IsFrame =>
       /\ \A sl \in Slots :
            heap'[items[sl].ref.velocity] =
              VelocityTowards(sl, IF treeState = "FORMED"
                                  THEN heap[items[sl].ref.targetPos]
                                  ELSE heap[items[sl].ref.chaosPos])
       /\ \A k \in 1..totalCount :
            photoMesh'[k].position =
              PositionTowards(k, IF treeState = "FORMED" THEN photoData[k].target
                                 ELSE IF k - 1 = featuredIndex
                                      THEN VSub(CameraFront, SceneOffset)
                                      ELSE photoData[k].chaos)]_vars

\* a frame was drawn in FORMED and, after the toggle and the roll of the
\* featured photo, one in CHAOS; the featured photo is not where its
\* neighbour is
C15_Witness ==
  /\ LastTwo("toggle", "frame")
  /\ hist[1].mode = "FORMED"
  /\ hist[2].mode = "CHAOS"
  /\ toggleCount = 1
  /\ frameCount = 2
  /\ rollCount = 1
  /\ photoData[featuredIndex + 1].target # photoData[featuredIndex + 1].chaos
  /\ photoMesh[featuredIndex + 1].position # photoMesh[((featuredIndex + 1) % totalCount) + 1].position

\* Claim C16: for the featured photo in CHAOS the destination is computed
\* from the camera of the frame being drawn: its world position, the local
\* destination plus the offset (0, -5, 0) of the parent group, is the camera
\* position plus 5 times the forward direction of the camera.
C16_FeaturedInFrontOfCamera ==
  [][(IsFrame /\ treeState = "CHAOS") =>
       LET k == featuredIndex + 1
           dest == PhotoTargetPos(photoData[k], FALSE, TRUE, camera')
       IN  /\ ToWorld(dest) = CameraFront
           /\ photoMesh'[k].position = PositionTowards(k, dest)]_vars

\* two frames in CHAOS with different cameras moved the featured photo
C16_Witness ==
  /\ LastTwo("frame", "frame")
  /\ hist[1].mode = "CHAOS"
  /\ hist[2].mode = "CHAOS"
  /\ camera # InitialCamera
  /\ photoMesh[featuredIndex + 1].position # NewPhotoMesh.position

\* what a frame adds to the position of the ornament of a slot
Moved(sl) == VSub(heap'[items[sl].ref.currentPos], heap[items[sl].ref.currentPos])

\* Claim C17: the time step of the physics is min(delta, 0.1): in a frame
\* with delta >= 0.1 the position of every ornament changes by its (new)
\* velocity times 0.1 * 60 = 6, however long the frame took; in a shorter
\* frame by the velocity times delta * 60.
C17_ClampedStep ==
  [][IsFrame =>
       \A sl \in Slots :
         LET v == heap'[items[sl].ref.velocity]
         IN  IF FrameDelta >= Scale \div 10
             THEN Moved(sl) = <<6 * v[1], 6 * v[2], 6 * v[3]>>
             ELSE Moved(sl) = VScale(v, FixMul(FrameDelta, 60 * Scale))]_vars

\* a frame of one second was drawn and moved every ornament
C17_Witness ==
  /\ Len(hist) > 0
  /\ LastOp.op = "frame"
  /\ frameCount = 1
  /\ elapsedTime = Scale
  /\ \A sl \in Slots : heap[items[sl].ref.velocity] # <<0, 0, 0>>
  /\ \A sl \in Slots : heap[items[sl].ref.currentPos] # heap[items[sl].ref.chaosPos]

\* Claim C18: the velocity of an ornament after updatePhysics is damping *
\* (old velocity + (dest - current) * stiffness / mass + noise), with the
\* noise added in CHAOS only; the position is integrated afterwards, with
\* the damped velocity.
C18_VelocityUpdate ==
  [][IsFrame =>
       \A sl \in Slots :
         LET g == Groups[sl[1]]
             it == items[sl]
             old == heap[it.ref.velocity]
             current == heap[it.ref.currentPos]
             dest == heap[IF treeState = "FORMED" THEN it.ref.targetPos
                          ELSE it.ref.chaosPos]
             pull == VScale(VSub(dest, current), FixDiv(g.stiffness, it.mass))
             noise == Noise(elapsedTime', it.phase, g.noiseStrength)
             new == heap'[it.ref.velocity]
         IN  /\ treeState = "FORMED" => new = VScale(VAdd(old, pull), g.damping)
             /\ treeState = "CHAOS" =>
                  new = VScale(VAdd(VAdd(old, pull), noise), g.damping)
             /\ heap'[it.ref.currentPos] =
                  VAdd(current,
                       VScale(new, FixMul(Min(FrameDelta, Scale \div 10), 60 * Scale)))]_vars

\* a second frame was drawn in CHAOS: every ornament had a velocity before
\* it and the noise of that frame is not zero
C18_Witness ==
  /\ LastTwo("frame", "frame")
  /\ hist[2].mode = "CHAOS"
  /\ treeState = "CHAOS"
  /\ \A sl \in Slots :
       /\ heap[items[sl].ref.velocity] # <<0, 0, 0>>
       /\ Noise(elapsedTime, items[sl].phase, Groups[sl[1]].noiseStrength) # <<0, 0, 0>>

(***************************************************************************)
(* Claims about the photo list of the App (Spec).                          *)
(***************************************************************************)
\* Claim C19: in every reachable state of the App photoOffset is an index of
\* the photo list: 0 <= photoOffset < userPhotos.length.
C19_OffsetInRange ==
  /\ 0 <= photoOffset
  /\ photoOffset < Len(userPhotos)

\* the slideshow of an uploaded list of two photos stepped from its last
\* photo back to the first
C19_Witness ==
  /\ Len(hist) >= 1
  /\ LastOp.op = "next"
  /\ Len(userPhotos) = 2
  /\ IsBlob(userPhotos[1])
  /\ LastOp.offset = Len(userPhotos) - 1
  /\ photoOffset = 0

\* Claim C20: the photo list of the App is never empty: it starts as the six
\* default photos and an upload with no file or with no image file keeps
\* it, so Photos never takes its empty-list return and no item gets the
\* empty URL.
C20_NeverEmpty ==
  /\ [](/\ Len(userPhotos) > 0
        /\ photosView.output = "group"
        /\ \A k \in 1..totalCount : photosView.urls[k] \in Range(userPhotos))
  /\ [][(uploadCount' = uploadCount + 1 /\ hist'[Len(hist')].n = 0) =>
          userPhotos' = userPhotos]_vars

\* an upload of files none of which is an image came after an upload of
\* images: the list of the first upload is still there
C20_Witness ==
  /\ Len(hist) >= 1
  /\ LastOp.op = "upload"
  /\ LastOp.n = 0
  /\ uploadCount = 2
  /\ IsBlob(userPhotos[1])
  /\ userPhotos[1] \in revoked
  /\ photosView.output = "group"

\* Claim C21: after any sequence of uploads no blob URL of the current photo
\* list has been revoked: an upload revokes a URL only when it removes the
\* URL from the list.
C21_NoRevokedInList == \A k \in 1..Len(userPhotos) : userPhotos[k] \notin revoked

\* the ornament of a slot is at its target position with zero velocity, in
\* the objects h
AtRest(h, sl) ==
  /\ h[items[sl].ref.currentPos] = h[items[sl].ref.targetPos]
  /\ h[items[sl].ref.velocity] = <<0, 0, 0>>

\* Claim C22: an ornament at its target position with zero velocity stays
\* there in a frame drawn in FORMED mode, with the same currentPos and
\* velocity; ornaments are generated at rest and the mode starts as FORMED,
\* so until the first toggle every ornament is at rest.
C22_RestStays ==
  /\ [](toggleCount = 0 => \A sl \in Slots : AtRest(heap, sl))
  /\ [][(IsFrame /\ treeState = "FORMED") =>
          \A sl \in Slots :
            AtRest(heap, sl) =>
              /\ AtRest(heap', sl)
              /\ heap'[items[sl].ref.currentPos] = heap[items[sl].ref.currentPos]
              /\ heap'[items[sl].ref.velocity] = heap[items[sl].ref.velocity]]_vars

\* all the frames were drawn, of a second each, without a toggle: the
\* ornaments have turned and are where they were generated
C22_Witness ==
  /\ toggleCount = 0
  /\ treeState = "FORMED"
  /\ frameCount = MaxFrames
  /\ elapsedTime = MaxFrames * Scale
  /\ LastTwo("frame", "frame")
  /\ \A sl \in Slots :
       /\ AtRest(heap, sl)
       /\ heap[items[sl].ref.currentPos] # heap[items[sl].ref.chaosPos]
  /\ instanceColor # <<>>

====
